---------------------------- MODULE Spec2Model ----------------------------
(***************************************************************************)
(* Dock-door status board (src/app.py): the in-memory board (front, back,  *)
(* door_truck_type), the Postgres table door_state, the CSV log file, the  *)
(* handlers update_location, override_truck and download_csv, served one   *)
(* at a time (Spec, SpecStoreUp, SpecConn) or two at a time (SpecConc).    *)
(*                                                                         *)
(* Text is modelled as a sequence of characters, each character a string   *)
(* of length one; the em dash U+2014 is written "U+2014" because the       *)
(* module text is ASCII.  Python's None is the value None below.           *)
(***************************************************************************)
EXTENDS Integers, Sequences, FiniteSets, TLC

(* ---------------------------- bounds ---------------------------------- *)
\* most requests the two handlers serve in one run
MaxRequests == 2

\* connections left open by one process that are counted
MaxOpenConns == 2

(* ---------------------------- characters ------------------------------ *)
EM == "U+2014"
LowerSeq == <<"a","b","c","d","e","f","g","h","i","j","k","l","m",
              "n","o","p","q","r","s","t","u","v","w","x","y","z">>
UpperSeq == <<"A","B","C","D","E","F","G","H","I","J","K","L","M",
              "N","O","P","Q","R","S","T","U","V","W","X","Y","Z">>
DigitSeq == <<"0","1","2","3","4","5","6","7","8","9">>
Range(s) == {s[i] : i \in DOMAIN s}
Whitespace == {" ", "\t", "\n"}
None == <<"None">>

Letters == Range(LowerSeq) \cup Range(UpperSeq)
Digits == Range(DigitSeq)
UpperOf == [c \in Range(LowerSeq) |->
               UpperSeq[CHOOSE i \in DOMAIN LowerSeq : LowerSeq[i] = c]]
DigitValue == [c \in Digits |->
                  (CHOOSE i \in DOMAIN DigitSeq : DigitSeq[i] = c) - 1]

\* str.upper() on one character
upper_char(c) == IF c \in DOMAIN UpperOf THEN UpperOf[c] ELSE c

\* str.upper()
upper(s) == [i \in DOMAIN s |-> upper_char(s[i])]

\* str.strip(): drop leading and trailing whitespace
RECURSIVE lstrip(_)
lstrip(s) == IF s # <<>> /\ Head(s) \in Whitespace THEN lstrip(Tail(s)) ELSE s
RECURSIVE rstrip(_)
rstrip(s) ==
    IF s # <<>> /\ s[Len(s)] \in Whitespace
    THEN rstrip(SubSeq(s, 1, Len(s) - 1))
    ELSE s
strip(s) == rstrip(lstrip(s))

\* str.replace(" ", "")
remove_spaces(s) == SelectSeq(s, LAMBDA c : c # " ")

\* str.isalnum(): non-empty and every character a letter or a digit
isalnum(s) ==
    /\ s # <<>>
    /\ \A i \in DOMAIN s : s[i] \in Letters \cup Digits

\* str.isdigit(): non-empty and every character a digit
isdigit(s) == s # <<>> /\ \A i \in DOMAIN s : s[i] \in Digits

\* int(s) for a string of digits
RECURSIVE int(_)
int(s) ==
    IF s = <<>> THEN 0
    ELSE 10 * int(SubSeq(s, 1, Len(s) - 1)) + DigitValue[s[Len(s)]]

\* str(n) for a natural number
RECURSIVE str(_)
str(n) == IF n < 10 THEN <<DigitSeq[n + 1]>>
          ELSE Append(str(n \div 10), DigitSeq[(n % 10) + 1])

(* ---------------------------- reference data -------------------------- *)
front_seed ==
    1 :> <<"I","N","D","9">> @@ 2 :> <<"X","N","J","2">> @@ 3 :> <<"I","B">> @@
    4 :> <<"I","B">> @@ 5 :> <<"I","B">> @@ 6 :> <<"I","B">> @@
    7 :> <<"I","B">> @@ 8 :> <<"X","M","D","2">> @@ 9 :> <<"I","B">> @@
    10 :> <<"I","B">> @@ 11 :> <<"X","P","H","7">> @@
    12 :> <<"X","L","A","3">> @@ 13 :> <<"T","E","B","9">> @@
    14 :> <<"X","C","E","1">> @@ 15 :> <<"R","D","U","2">>

back_seed ==
    122 :> <<"A","B","E","8">> @@ 123 :> <<"X","M","E","1">> @@
    124 :> <<"S","M","F","3">> @@ 125 :> <<"V","G","T","2">> @@
    126 :> <<"A","V","P","1">> @@ 127 :> <<EM>> @@
    128 :> <<"P","H","L","4">> @@ 129 :> <<"X","C","L","1">> @@
    130 :> <<"C","H","O","1">> @@ 131 :> <<"X","A","T","3">> @@
    132 :> <<"S","W","F","2">> @@ 133 :> <<"S","C","K","4">> @@
    134 :> <<"R","M","N","3">> @@ 135 :> <<"C","M","H","3">> @@
    136 :> <<"G","Y","R","3">> @@ 137 :> <<"F","T","W","1">> @@
    138 :> <<EM>> @@ 139 :> <<"H","I","A","1">>

JBHU == <<"J","B","H","U">>
AZNU == <<"A","Z","N","U">>
XPOU == <<"X","P","O","U">>
AZNG == <<"A","Z","N","G">>
AUTO == <<"A","U","T","O">>

truck_by_location ==
    <<"X","M","E","1">> :> JBHU @@ <<"S","C","K","4">> :> JBHU @@
    <<"X","A","T","3">> :> AZNU @@ <<"F","T","W","1">> :> JBHU @@
    <<"V","G","T","2">> :> XPOU @@ <<"X","L","A","3">> :> JBHU @@
    <<"G","Y","R","3">> :> JBHU @@ <<"S","M","F","3">> :> JBHU @@
    <<"C","L","O","S","E","D">> :> <<>> @@
    <<"E","m","p","t","y"," ","D","o","o","r">> :> <<>>

DEFAULT_TRUCK == AZNG

TRUCK_TYPES == {AZNG, AZNU, JBHU, XPOU}

\* the literals of the blank test in update_location
BLANK_LITERALS == {<<>>, <<EM>>, <<"-","-","-">>, <<"-","-","-","-">>}

CSV_HEADER == << <<"d","o","o","r">>,
                 <<"l","o","c","a","t","i","o","n">>,
                 <<"t","r","u","c","k","_","t","y","p","e">>,
                 <<"u","p","d","a","t","e","d","_","a","t">> >>

(* ---------------------------- request inputs -------------------------- *)
\* the "door" form field: front door 3, back door 123 (padded with a
\* blank), an unknown door and a non-numeric text
ValidDoorTexts == { <<"3">>, <<" ","1","2","3">> }
InvalidDoorTexts == { <<"9","9","9">>, <<"1","2","a">> }

\* the "location" form field: a code of truck_by_location in lower case,
\* the four blank literals (one padded with a blank) and a lone hyphen
LocTexts == { <<"c","l","o","s","e","d">>,
              <<>>, <<" ",EM>>, <<"-","-","-">>, <<"-","-","-","-">>,
              <<"-">>, <<"E","m","p","t","y"," ","D","o","o","r">> }

\* the "truck" form field
TruckTexts == { AUTO, <<"x","p","o","u">>,
                <<"b","o","g","u","s">> }

\* the forms posted to /update-location and to /override-truck
UpdateForms ==
    (ValidDoorTexts \X LocTexts)
    \cup (InvalidDoorTexts \X { <<"c","l","o","s","e","d">> })
OverrideForms ==
    (ValidDoorTexts \X TruckTexts)
    \cup (InvalidDoorTexts \X { <<"x","p","o","u">> })

(* ---------------------------- state ----------------------------------- *)
VARIABLES
    front,            \* dict front: door -> location
    back,             \* dict back: door -> location
    door_truck_type,  \* dict of overrides: door -> truck type
    door_state,       \* table door_state: door -> row
    db_configured,    \* psycopg2 imported and DATABASE_URL set
    db_up,            \* psycopg2.connect succeeds
    query_fails,      \* cursor.execute raises on an open connection
    open_conns,       \* connections of this process not yet closed
    threads,          \* requests being served concurrently, step by step
    csv_exists,       \* os.path.exists(CSV_LOG_PATH)
    csv_lines,        \* lines of the file CSV_LOG_PATH
    running,          \* the module was imported without an exception
    handled,          \* number of requests served so far
    request           \* the request handled last and its outcome

vars == <<front, back, door_truck_type, door_state, db_configured, db_up,
          query_fails, open_conns, threads,
          csv_exists, csv_lines, running, handled, request>>

(* ---------------------------- helpers --------------------------------- *)
\* dict.get(k) with default None
dict_get(m, k) == IF k \in DOMAIN m THEN m[k] ELSE None

\* dict.pop(k, None)
dict_pop(m, k) == [d \in DOMAIN m \ {k} |-> m[d]]

\* m[k] = v
dict_set(m, k, v) == [d \in DOMAIN m \cup {k} |-> IF d = k THEN v ELSE m[d]]

no_overrides == [d \in {} |-> None]

\* the time of a write; the model does not tell one time from another
now_str == <<"n","o","w">>

normalize_loc(loc) == upper(strip(loc))

\* a blank test that keeps the spaces inside the text
is_blank_loc_strict(loc) ==
    LET l == strip(loc)
    IN  (l = <<>>) \/ ~ isalnum(l)

is_blank_loc(loc) ==
    LET l == strip(loc)
    IN  (l = <<>>) \/ ~ isalnum(remove_spaces(l))

\* variant: the location map is consulted before the override
get_truck_for_door_map_first(door_num, loc) ==
    IF is_blank_loc(loc) THEN <<>>
    ELSE IF normalize_loc(loc) \in DOMAIN truck_by_location
         THEN truck_by_location[normalize_loc(loc)]
    ELSE IF door_num \in DOMAIN door_truck_type THEN door_truck_type[door_num]
    ELSE DEFAULT_TRUCK

\* variant: the override is consulted before the blank test
get_truck_for_door_override_first(door_num, loc) ==
    IF door_num \in DOMAIN door_truck_type THEN door_truck_type[door_num]
    ELSE IF is_blank_loc(loc) THEN <<>>
    ELSE IF normalize_loc(loc) \in DOMAIN truck_by_location
         THEN truck_by_location[normalize_loc(loc)]
         ELSE DEFAULT_TRUCK

get_truck_for_door(door_num, loc) ==
    IF is_blank_loc(loc) THEN <<>>
    ELSE IF door_num \in DOMAIN door_truck_type THEN door_truck_type[door_num]
    ELSE IF normalize_loc(loc) \in DOMAIN truck_by_location
         THEN truck_by_location[normalize_loc(loc)]
         ELSE DEFAULT_TRUCK

\* combined.update(front); combined.update(back)
all_doors == back @@ front

\* "None": no store configured; "conn": a connection; "raise": connect raises
get_db_conn ==
    IF ~ db_configured THEN "None"
    ELSE IF db_up THEN "conn" ELSE "raise"

\* the table after save_door_to_db on a connection (INSERT .. ON CONFLICT
\* (door) DO UPDATE)
\* an upsert whose DO UPDATE leaves truck_type out
upsert_location_only(table, door_num, location, truck_type) ==
    dict_set(table, door_num,
             [location |-> location,
              truck_type |-> IF door_num \in DOMAIN table
                             THEN table[door_num].truck_type ELSE truck_type,
              updated_at |-> now_str])

upsert(table, door_num, location, truck_type) ==
    dict_set(table, door_num,
             [location |-> location, truck_type |-> truck_type,
              updated_at |-> now_str])

save_door_to_db(door_num, location, truck_type) ==
    IF get_db_conn = "conn"
    THEN upsert(door_state, door_num, location, truck_type)
    ELSE door_state

\* an append that writes the truck column empty
append_update_to_csv_no_truck(door, location, truck_type) ==
    (IF csv_exists THEN csv_lines ELSE csv_lines \o <<CSV_HEADER>>)
    \o << <<str(door), location, <<>>, now_str>> >>

\* the lines of the log file after append_update_to_csv
append_update_to_csv(door, location, truck_type) ==
    (IF csv_exists THEN csv_lines ELSE csv_lines \o <<CSV_HEADER>>)
    \o << <<str(door), location,
            IF truck_type \in {None, <<>>} THEN <<>> ELSE truck_type,
            now_str>> >>

(* ---------------------------- startup --------------------------------- *)
\* a seeding without the COUNT(*) test
init_db_and_seed_always(table) ==
    [d \in DOMAIN (back_seed @@ front_seed) |->
        [location |-> (back_seed @@ front_seed)[d],
         truck_type |-> dict_get(no_overrides, d),
         updated_at |-> now_str]]

\* the table after init_db_and_seed on a connection: the seed rows are
\* inserted only into an empty table
init_db_and_seed(table) ==
    IF Cardinality(DOMAIN table) = 0
    THEN [d \in DOMAIN (back_seed @@ front_seed) |->
             [location |-> (back_seed @@ front_seed)[d],
              truck_type |-> dict_get(no_overrides, d),
              updated_at |-> now_str]]
    ELSE table

\* loc = r["location"] or EM
row_loc(r) == IF r.location \in {None, <<>>} THEN <<EM>> ELSE r.location

\* trk = (r.get("truck_type") or "").strip().upper() or None
row_trk(r) ==
    LET t == upper(strip(IF r.truck_type = None THEN <<>> ELSE r.truck_type))
    IN  IF t = <<>> THEN None ELSE t

\* a load that writes every row into front, without the membership tests
load_front_every_row(table) ==
    [d \in DOMAIN front_seed \cup DOMAIN table |->
        IF d \in DOMAIN table THEN row_loc(table[d]) ELSE front_seed[d]]

\* the three dicts after load_state_from_db has read the rows of table
load_front(table) ==
    [d \in DOMAIN front_seed |->
        IF d \in DOMAIN table THEN row_loc(table[d]) ELSE front_seed[d]]

load_back(table) ==
    [d \in DOMAIN back_seed |->
        IF d \in DOMAIN table /\ d \notin DOMAIN front_seed
        THEN row_loc(table[d]) ELSE back_seed[d]]

\* a load that reads the locations only
load_door_truck_type_none(table) == no_overrides

load_door_truck_type(table) ==
    [d \in {e \in DOMAIN table : row_trk(table[e]) # None} |->
        row_trk(table[d])]

\* what a replay of the log file would give: the records are applied in
\* file order to a board b = [front, back, overrides], the last one wins
RECURSIVE replay(_, _)
replay(lines, b) ==
    IF lines = <<>> THEN b
    ELSE IF Head(lines) = CSV_HEADER \/ ~ isdigit(Head(lines)[1])
    THEN replay(Tail(lines), b)
    ELSE LET d == int(Head(lines)[1])
             loc == Head(lines)[2]
             trk == Head(lines)[3]
         IN  replay(Tail(lines),
                [front |-> IF d \in DOMAIN b.front
                           THEN dict_set(b.front, d, loc) ELSE b.front,
                 back |-> IF d \in DOMAIN b.back /\ d \notin DOMAIN b.front
                          THEN dict_set(b.back, d, loc) ELSE b.back,
                 overrides |-> IF trk = <<>> THEN dict_pop(b.overrides, d)
                               ELSE dict_set(b.overrides, d, trk)])

seed_board ==
    [front |-> front_seed, back |-> back_seed, overrides |-> no_overrides]

\* a startup that reads the log file back when there is no connection
Startup_replays_log(table) ==
    LET conn == IF get_db_conn = "conn" /\ query_fails
                THEN "raise" ELSE get_db_conn
        b == replay(csv_lines, seed_board)
    IN  /\ running' = (conn # "raise")
        /\ open_conns' = 0
        /\ threads' = <<>>
        /\ door_state' = IF conn = "conn"
                         THEN init_db_and_seed(table) ELSE table
        /\ front' = IF conn = "conn"
                    THEN load_front(door_state') ELSE b.front
        /\ back' = IF conn = "conn"
                   THEN load_back(door_state') ELSE b.back
        /\ door_truck_type' = IF conn = "conn"
                              THEN load_door_truck_type(door_state')
                              ELSE b.overrides
        /\ request' = [op |-> "startup", door |-> <<>>, arg |-> <<>>,
                       resp |-> IF conn = "raise" THEN "error" ELSE "ok",
                       body |-> <<>>]

\* import of the module: the dicts are built, then init_db_and_seed() and
\* load_state_from_db() run; an exception of connect ends the process
Startup(table) ==
    LET conn == IF get_db_conn = "conn" /\ query_fails
                THEN "raise" ELSE get_db_conn
    IN  /\ running' = (conn # "raise")
        /\ open_conns' = 0
        /\ threads' = <<>>
        /\ door_state' = IF conn = "conn"
                         THEN init_db_and_seed(table) ELSE table
        /\ front' = IF conn = "conn"
                    THEN load_front(door_state') ELSE front_seed
        /\ back' = IF conn = "conn"
                   THEN load_back(door_state') ELSE back_seed
        /\ door_truck_type' = IF conn = "conn"
                              THEN load_door_truck_type(door_state')
                              ELSE no_overrides
        /\ request' = [op |-> "startup", door |-> <<>>, arg |-> <<>>,
                       resp |-> IF conn = "raise" THEN "error" ELSE "ok",
                       body |-> <<>>]

Boot ==
    /\ db_configured \in BOOLEAN
    /\ db_up \in (IF db_configured THEN BOOLEAN ELSE {FALSE})
    /\ query_fails = FALSE
    /\ open_conns = 0
    /\ csv_exists = FALSE
    /\ csv_lines = <<>>
    /\ handled = 0
    /\ LET conn == IF ~ db_configured THEN "None"
                   ELSE IF db_up THEN "conn" ELSE "raise"
           table == IF conn = "conn" THEN init_db_and_seed(no_overrides)
                    ELSE no_overrides
       IN  /\ running = (conn # "raise")
           /\ door_state = table
           /\ front = IF conn = "conn" THEN load_front(table) ELSE front_seed
           /\ back = IF conn = "conn" THEN load_back(table) ELSE back_seed
           /\ door_truck_type = IF conn = "conn"
                                THEN load_door_truck_type(table)
                                ELSE no_overrides
           /\ request = [op |-> "startup", door |-> <<>>, arg |-> <<>>,
                         resp |-> IF conn = "raise" THEN "error" ELSE "ok",
                       body |-> <<>>]

\* the process after its first start; no request is being served
Init == Boot /\ threads = <<>>

\* the process is stopped and started again
Restart ==
    /\ UNCHANGED <<db_configured, db_up, query_fails, csv_exists, csv_lines,
                   handled>>
    /\ Startup(door_state)

(* ---------------------------- persistence ----------------------------- *)
\* save_door_to_db(..) followed by append_update_to_csv(..): an exception
\* of connect leaves the handler before the log is written; an exception
\* of execute does too, rolls the write back and skips conn.close()
persist(door_num, loc, truck_type, req) ==
    IF get_db_conn = "raise"
    THEN /\ UNCHANGED <<door_state, csv_exists, csv_lines, open_conns>>
         /\ request' = [req EXCEPT !.resp = "error"]
    ELSE IF get_db_conn = "conn" /\ query_fails
    THEN /\ UNCHANGED <<door_state, csv_exists, csv_lines>>
         /\ open_conns' = open_conns + 1
         /\ request' = [req EXCEPT !.resp = "error"]
    ELSE /\ door_state' = save_door_to_db(door_num, loc, truck_type)
         /\ open_conns' = open_conns
         /\ csv_lines' = append_update_to_csv(door_num, loc, truck_type)
         /\ csv_exists' = TRUE
         /\ request' = req

\* variant: the log line is written before the door is validated
ignored_logged(req) ==
    /\ UNCHANGED <<front, back, door_truck_type, door_state, open_conns>>
    /\ csv_lines' = append_update_to_csv(0, <<>>, None)
    /\ csv_exists' = TRUE
    /\ request' = req

\* a handler that returns at a validation check
ignored(req) ==
    /\ UNCHANGED <<front, back, door_truck_type, door_state, open_conns,
                   csv_exists, csv_lines>>
    /\ request' = req

(* ---------------------------- update_location ------------------------- *)
\* variant: the literal "----" is missing from the list
stored_loc_three(loc) ==
    IF loc \in {<<>>, <<EM>>, <<"-","-","-">>} THEN <<EM>> ELSE loc

\* if loc in ["", EM, "---", "----"]: loc = EM
stored_loc(loc) == IF loc \in BLANK_LITERALS THEN <<EM>> ELSE loc

\* variant: the override survives a blank location
overrides_after_update_keep(door_num, loc) == door_truck_type

\* door_truck_type after the pop of update_location
overrides_after_update(door_num, loc) ==
    IF is_blank_loc(loc) /\ door_num \in DOMAIN door_truck_type
    THEN dict_pop(door_truck_type, door_num)
    ELSE door_truck_type

update_location(door_text, location_text) ==
    LET door == strip(door_text)
        req == [op |-> "update_location", door |-> door_text,
                arg |-> location_text, resp |-> "redirect", body |-> <<>>]
    IN  /\ running
        /\ handled < MaxRequests
        /\ handled' = handled + 1
        /\ UNCHANGED <<db_configured, db_up, query_fails, threads, running>>
        /\ IF ~ isdigit(door) THEN ignored(req)
           ELSE IF int(door) \notin DOMAIN all_doors THEN ignored(req)
           ELSE LET door_num == int(door)
                    loc == stored_loc(normalize_loc(location_text))
                IN  /\ front' = IF door_num \in DOMAIN front
                                THEN dict_set(front, door_num, loc)
                                ELSE front
                    /\ back' = IF door_num \in DOMAIN front
                               THEN back
                               ELSE dict_set(back, door_num, loc)
                    /\ door_truck_type' = overrides_after_update(door_num, loc)
                    /\ persist(door_num, loc,
                               dict_get(door_truck_type', door_num), req)

(* ---------------------------- override_truck -------------------------- *)
\* variant: the sentinel is compared in lower case, after the upper-casing
overrides_after_override_auto_lower(door_num, loc, truck) ==
    IF is_blank_loc(loc) THEN dict_pop(door_truck_type, door_num)
    ELSE IF truck = <<"a","u","t","o">>
         THEN dict_pop(door_truck_type, door_num)
    ELSE IF truck \in TRUCK_TYPES THEN dict_set(door_truck_type, door_num, truck)
    ELSE door_truck_type

\* variant: an unrecognized truck clears the override
overrides_after_override_else_clear(door_num, loc, truck) ==
    IF is_blank_loc(loc) THEN dict_pop(door_truck_type, door_num)
    ELSE IF truck \in TRUCK_TYPES THEN dict_set(door_truck_type, door_num, truck)
    ELSE dict_pop(door_truck_type, door_num)

\* variant: selecting the truck a door already has switches it off
overrides_after_override_toggle(door_num, loc, truck) ==
    IF is_blank_loc(loc) THEN dict_pop(door_truck_type, door_num)
    ELSE IF truck = AUTO THEN dict_pop(door_truck_type, door_num)
    ELSE IF truck \in TRUCK_TYPES
         THEN IF dict_get(door_truck_type, door_num) = truck
              THEN dict_pop(door_truck_type, door_num)
              ELSE dict_set(door_truck_type, door_num, truck)
    ELSE door_truck_type

\* door_truck_type after override_truck on an existing door at loc
overrides_after_override(door_num, loc, truck) ==
    IF is_blank_loc(loc) THEN dict_pop(door_truck_type, door_num)
    ELSE IF truck = AUTO THEN dict_pop(door_truck_type, door_num)
    ELSE IF truck \in TRUCK_TYPES THEN dict_set(door_truck_type, door_num, truck)
    ELSE door_truck_type

override_truck(door_text, truck_text) ==
    LET door == strip(door_text)
        truck == upper(strip(truck_text))
        req == [op |-> "override_truck", door |-> door_text,
                arg |-> truck_text, resp |-> "redirect", body |-> <<>>]
    IN  /\ running
        /\ handled < MaxRequests
        /\ handled' = handled + 1
        /\ UNCHANGED <<db_configured, db_up, query_fails, threads, running,
                       front, back>>
        /\ IF ~ isdigit(door) THEN ignored(req)
           ELSE IF int(door) \notin DOMAIN all_doors THEN ignored(req)
           ELSE LET door_num == int(door)
                    loc == all_doors[door_num]
                IN  /\ door_truck_type' =
                           overrides_after_override(door_num, loc, truck)
                    /\ IF is_blank_loc(loc) \/ truck = AUTO
                       THEN persist(door_num, loc, None, req)
                       ELSE IF truck \in TRUCK_TYPES
                       THEN persist(door_num, loc, truck, req)
                       ELSE /\ UNCHANGED <<door_state, open_conns,
                                           csv_exists, csv_lines>>
                            /\ request' = req

(* ---------------------------- download_csv ---------------------------- *)
\* the rows of SELECT .. FROM door_state ORDER BY door, written by
\* csv.writer: None is written as the empty field
RECURSIVE select_order_by_door(_)
select_order_by_door(table) ==
    IF DOMAIN table = {} THEN <<>>
    ELSE LET d == CHOOSE x \in DOMAIN table : \A y \in DOMAIN table : x <= y
             r == table[d]
         IN  << <<str(d),
                  IF r.location = None THEN <<>> ELSE r.location,
                  IF r.truck_type \in {None, <<>>} THEN <<>> ELSE r.truck_type,
                  r.updated_at>> >>
             \o select_order_by_door(dict_pop(table, d))

\* a fallback that creates the missing log file with nothing in it
new_log_file_empty == <<>>

\* the file the fallback writes when the log file is missing
new_log_file == <<CSV_HEADER>>

\* GET /download-csv: the snapshot of the rows with a connection, the log
\* file without one; an exception of execute skips conn.close()
download_csv ==
    LET req == [op |-> "download_csv", door |-> <<>>, arg |-> <<>>,
                resp |-> "ok", body |-> <<>>]
    IN  /\ running
        /\ UNCHANGED <<front, back, door_truck_type, door_state, db_configured,
                       db_up, query_fails, threads, running, handled>>
        /\ IF get_db_conn = "raise"
           THEN /\ request' = [req EXCEPT !.resp = "error"]
                /\ UNCHANGED <<open_conns, csv_exists, csv_lines>>
           ELSE IF get_db_conn = "conn" /\ query_fails
           THEN /\ open_conns < MaxOpenConns
                /\ open_conns' = open_conns + 1
                /\ request' = [req EXCEPT !.resp = "error"]
                /\ UNCHANGED <<csv_exists, csv_lines>>
           ELSE IF get_db_conn = "conn"
           THEN /\ request' = [req EXCEPT !.body =
                       <<CSV_HEADER>> \o select_order_by_door(door_state)]
                /\ UNCHANGED <<open_conns, csv_exists, csv_lines>>
           ELSE /\ csv_lines' = IF csv_exists THEN csv_lines ELSE new_log_file
                /\ csv_exists' = TRUE
                /\ request' = [req EXCEPT !.body = csv_lines']
                /\ UNCHANGED open_conns

(* ---------------------------- environment ----------------------------- *)
\* the store becomes unreachable: psycopg2.connect raises from now on
StoreDown ==
    /\ db_configured /\ db_up
    /\ db_up' = FALSE
    /\ UNCHANGED <<front, back, door_truck_type, door_state, db_configured,
                   query_fails, open_conns, threads,
                   csv_exists, csv_lines, running, handled, request>>

\* the store is reachable again
StoreUp ==
    /\ db_configured /\ ~ db_up
    /\ db_up' = TRUE
    /\ UNCHANGED <<front, back, door_truck_type, door_state, db_configured,
                   query_fails, open_conns, threads,
                   csv_exists, csv_lines, running, handled, request>>

UpdateLocation == \E f \in UpdateForms : update_location(f[1], f[2])

OverrideTruck == \E f \in OverrideForms : override_truck(f[1], f[2])

Next ==
    \/ UpdateLocation
    \/ OverrideTruck
    \/ download_csv
    \/ Restart
    \/ StoreDown
    \/ StoreUp

Spec == Init /\ [][Next]_vars

(* ---------------------- two requests at a time ------------------------ *)
\* the requests two threads of the server may be serving
Requests ==
    {[op |-> "update_location", door |-> f[1], arg |-> f[2]] :
        f \in ValidDoorTexts \X LocTexts}
    \cup {[op |-> "override_truck", door |-> f[1], arg |-> f[2]] :
             f \in ValidDoorTexts \X TruckTexts}

\* a thread that was handed request r and has run nothing of its handler
new_thread(r) ==
    [op |-> r.op, door |-> r.door, arg |-> r.arg, pc |-> "read",
     doors |-> <<>>, file_exists |-> FALSE]

\* door_num and loc as thread t holds them after its read
thread_door(t) == int(strip(t.door))

thread_loc(t) ==
    IF t.op = "update_location" THEN stored_loc(normalize_loc(t.arg))
    ELSE t.doors[thread_door(t)]

\* the truck_type the handler of thread t passes to its persistence calls
thread_truck(t) ==
    IF t.op = "update_location"
    THEN dict_get(door_truck_type, thread_door(t))
    ELSE IF is_blank_loc(thread_loc(t)) \/ upper(strip(t.arg)) = AUTO
    THEN None
    ELSE upper(strip(t.arg))

goto(i, pc) == threads' = [threads EXCEPT ![i].pc = pc]

\* doors = all_doors() and the door checks
read_board(i) ==
    /\ threads[i].pc = "read"
    /\ threads' = [threads EXCEPT
          ![i].doors = all_doors,
          ![i].pc = IF ~ isdigit(strip(threads[i].door)) THEN "done"
                    ELSE IF thread_door(threads[i]) \notin DOMAIN all_doors
                    THEN "done"
                    ELSE IF threads[i].op = "update_location" THEN "write"
                    ELSE "override"]
    /\ UNCHANGED <<front, back, door_truck_type, door_state, db_configured,
                   db_up, query_fails, open_conns, csv_exists, csv_lines,
                   running, handled, request>>

\* a write that stores the whole snapshot back with the new location
write_board_from_snapshot(i) ==
    LET t == threads[i]
        new == dict_set(t.doors, thread_door(t), thread_loc(t))
    IN  /\ t.pc = "write"
        /\ front' = [d \in DOMAIN front |-> new[d]]
        /\ back' = [d \in DOMAIN back |-> new[d]]
        /\ goto(i, "override")
        /\ UNCHANGED <<door_truck_type, door_state, db_configured,
                       db_up, query_fails, open_conns, csv_exists, csv_lines,
                       running, handled, request>>

\* front[door_num] = loc, or back[door_num] = loc
write_board(i) ==
    LET t == threads[i]
    IN  /\ t.pc = "write"
        /\ front' = IF thread_door(t) \in DOMAIN front
                    THEN dict_set(front, thread_door(t), thread_loc(t))
                    ELSE front
        /\ back' = IF thread_door(t) \in DOMAIN front
                   THEN back
                   ELSE dict_set(back, thread_door(t), thread_loc(t))
        /\ goto(i, "override")
        /\ UNCHANGED <<door_truck_type, door_state, db_configured,
                       db_up, query_fails, open_conns, csv_exists, csv_lines,
                       running, handled, request>>

\* the pop or the assignment on door_truck_type; an override request with
\* an unknown truck returns here
write_override(i) ==
    LET t == threads[i]
        truck == upper(strip(t.arg))
    IN  /\ t.pc = "override"
        /\ door_truck_type' =
              IF t.op = "update_location"
              THEN overrides_after_update(thread_door(t), thread_loc(t))
              ELSE overrides_after_override(thread_door(t), thread_loc(t),
                                            truck)
        /\ goto(i, IF \/ t.op = "update_location"
                      \/ is_blank_loc(thread_loc(t))
                      \/ truck = AUTO
                      \/ truck \in TRUCK_TYPES
                   THEN "save" ELSE "done")
        /\ UNCHANGED <<front, back, door_state, db_configured,
                       db_up, query_fails, open_conns, csv_exists, csv_lines,
                       running, handled, request>>

\* save_door_to_db(door_num, loc, ..)
save_row(i) ==
    LET t == threads[i]
    IN  /\ t.pc = "save"
        /\ door_state' =
              save_door_to_db(thread_door(t), thread_loc(t), thread_truck(t))
        /\ goto(i, "exists")
        /\ UNCHANGED <<front, back, door_truck_type, db_configured,
                       db_up, query_fails, open_conns, csv_exists, csv_lines,
                       running, handled, request>>

\* file_exists = os.path.exists(CSV_LOG_PATH)
path_exists(i) ==
    /\ threads[i].pc = "exists"
    /\ threads' = [threads EXCEPT ![i].file_exists = csv_exists,
                                  ![i].pc = "append"]
    /\ UNCHANGED <<front, back, door_truck_type, door_state, db_configured,
                   db_up, query_fails, open_conns, csv_exists, csv_lines,
                   running, handled, request>>

\* the file is opened for append, the header is written when the file was
\* not seen, then the record
append_record(i) ==
    LET t == threads[i]
    IN  /\ t.pc = "append"
        /\ csv_lines' =
              (IF t.file_exists THEN csv_lines ELSE csv_lines \o <<CSV_HEADER>>)
              \o << <<str(thread_door(t)), thread_loc(t),
                      IF thread_truck(t) \in {None, <<>>}
                      THEN <<>> ELSE thread_truck(t),
                      now_str>> >>
        /\ csv_exists' = TRUE
        /\ goto(i, "done")
        /\ UNCHANGED <<front, back, door_truck_type, door_state,
                       db_configured, db_up, query_fails, open_conns,
                       running, handled, request>>

\* two requests for different doors arrive together after the first start
InitConc ==
    /\ Boot
    /\ running
    /\ threads \in {<<new_thread(r), new_thread(q)>> :
                       <<r, q>> \in {rq \in Requests \X Requests :
                           int(strip(rq[1].door)) < int(strip(rq[2].door))}}

NextConc ==
    \/ \E i \in DOMAIN threads : read_board(i)
    \/ \E i \in DOMAIN threads : write_board(i)
    \/ \E i \in DOMAIN threads : write_override(i)
    \/ \E i \in DOMAIN threads : save_row(i)
    \/ \E i \in DOMAIN threads : path_exists(i)
    \/ \E i \in DOMAIN threads : append_record(i)

SpecConc == InitConc /\ [][NextConc]_vars

\* statements start to fail on connections that open: cur.execute raises
QueryBreaks ==
    /\ db_configured /\ ~ query_fails
    /\ query_fails' = TRUE
    /\ UNCHANGED <<front, back, door_truck_type, door_state, db_configured,
                   db_up, open_conns, threads,
                   csv_exists, csv_lines, running, handled, request>>

\* statements succeed again
QueryHeals ==
    /\ query_fails
    /\ query_fails' = FALSE
    /\ UNCHANGED <<front, back, door_truck_type, door_state, db_configured,
                   db_up, open_conns, threads,
                   csv_exists, csv_lines, running, handled, request>>

\* the interpreter finalizes a connection object that conn.close() never
\* reached
Collect ==
    /\ open_conns > 0
    /\ open_conns' = open_conns - 1
    /\ UNCHANGED <<front, back, door_truck_type, door_state, db_configured,
                   db_up, query_fails, threads,
                   csv_exists, csv_lines, running, handled, request>>

NextConn ==
    \/ Next
    \/ QueryBreaks
    \/ QueryHeals
    \/ Collect

SpecConn == Init /\ [][NextConn]_vars

\* the store is configured and reachable from the first startup on
InitStoreUp == Init /\ db_configured /\ db_up

NextStoreUp ==
    \/ UpdateLocation
    \/ OverrideTruck
    \/ download_csv
    \/ Restart

SpecStoreUp == InitStoreUp /\ [][NextStoreUp]_vars

(* ---------------------------- request helpers ------------------------ *)
\* the step is one request served by update_location or override_truck
Served == handled' = handled + 1

\* the door of request r exists on the board
door_exists(r) ==
    isdigit(strip(r.door)) /\ int(strip(r.door)) \in DOMAIN all_doors

door_of(r) == int(strip(r.door))

\* the truck text of an override request as the handler reads it
truck_of(r) == upper(strip(r.arg))

\* the line of the log for door d, location l and truck t, less its time
log_entry(line) == <<line[1], line[2], line[3]>>

\* request r passes the checks of its handler and reaches the two
\* persistence calls
accepted(r) ==
    /\ door_exists(r)
    /\ \/ r.op = "update_location"
       \/ /\ r.op = "override_truck"
          /\ \/ is_blank_loc(all_doors[door_of(r)])
             \/ truck_of(r) = AUTO
             \/ truck_of(r) \in TRUCK_TYPES

\* request r is the request served before it, posted again
same_form(r, q) == r.op = q.op /\ r.door = q.door /\ r.arg = q.arg

\* location and truck_type of every row
row_values(table) ==
    [d \in DOMAIN table |-> <<table[d].location, table[d].truck_type>>]

is_prefix(s, t) == Len(s) <= Len(t) /\ SubSeq(t, 1, Len(s)) = s

(* ---------------------------- C1 -------------------------------------- *)
\* C1: in every reachable state, every door with a non-blank location
\* resolves to its override if it has one, else to the truck_by_location
\* value of the normalized location if that is a key, else to "AZNG".
C1_Precedence ==
    \A d \in DOMAIN all_doors :
        LET loc == all_doors[d]
            key == upper(strip(loc))
        IN  ~ is_blank_loc(loc) =>
                get_truck_for_door(d, loc) =
                    IF d \in DOMAIN door_truck_type THEN door_truck_type[d]
                    ELSE IF key \in DOMAIN truck_by_location
                         THEN truck_by_location[key]
                         ELSE <<"A","Z","N","G">>

\* an override beats a location that maps to another truck, and two doors
\* at one location show different trucks
C1_Witness ==
    /\ \E d \in DOMAIN door_truck_type :
          /\ all_doors[d] \in DOMAIN truck_by_location
          /\ truck_by_location[all_doors[d]] # door_truck_type[d]
          /\ get_truck_for_door(d, all_doors[d]) = door_truck_type[d]
    /\ \E d, e \in DOMAIN all_doors :
          /\ all_doors[d] = all_doors[e]
          /\ ~ is_blank_loc(all_doors[d])
          /\ get_truck_for_door(d, all_doors[d])
                # get_truck_for_door(e, all_doors[e])

(* ---------------------------- C2 -------------------------------------- *)
\* C2: for every door, with or without an override, a blank location
\* resolves to the empty string; the board shows no truck at a blank door.
C2_BlankHasNoTruck ==
    /\ \A d \in DOMAIN all_doors \cup {999} :
          \A loc \in { <<>>, <<" ">>, <<EM>>, <<" ",EM>>, <<"-">>,
                       <<"-","-","-">>, <<"-","-","-","-">> } :
              get_truck_for_door(d, loc) = <<>>
    /\ \A d \in DOMAIN all_doors :
          is_blank_loc(all_doors[d]) =>
              get_truck_for_door(d, all_doors[d]) = <<>>

\* a door holds an override and still resolves to nothing at a blank location
C2_Witness ==
    \E d \in DOMAIN door_truck_type :
        /\ door_truck_type[d] \in TRUCK_TYPES
        /\ get_truck_for_door(d, <<EM>>) = <<>>
        /\ \E e \in DOMAIN all_doors : is_blank_loc(all_doors[e])

(* ---------------------------- C3 -------------------------------------- *)
\* C3: no door whose stored location is blank has an entry in the override
\* map.
C3_NoOverrideOnBlankDoor ==
    \A d \in DOMAIN all_doors :
        is_blank_loc(all_doors[d]) => d \notin DOMAIN door_truck_type

\* a door that had an override was set to a blank location
C3_Witness ==
    /\ request.op = "update_location"
    /\ door_exists(request)
    /\ is_blank_loc(all_doors[door_of(request)])
    /\ door_of(request) \notin DOMAIN door_truck_type
    /\ Len(csv_lines) >= 3
    /\ LET before == csv_lines[Len(csv_lines) - 1]
           last == csv_lines[Len(csv_lines)]
       IN  /\ before[1] = str(door_of(request))
           /\ before[3] \in TRUCK_TYPES
           /\ last[1] = str(door_of(request))
           /\ last[3] = <<>>

(* ---------------------------- C4 -------------------------------------- *)
\* C4: update_location on an existing door with a location that is, after
\* trimming, one of "", U+2014, "---", "----" stores U+2014 as the door's
\* location and leaves the door without an override.
C4_BlankUpdateStoresEmDash ==
    (/\ request.op = "update_location"
     /\ door_exists(request)
     /\ strip(request.arg) \in
            { <<>>, <<EM>>, <<"-","-","-">>, <<"-","-","-","-">> })
    => /\ all_doors[door_of(request)] = <<EM>>
       /\ door_of(request) \notin DOMAIN door_truck_type

\* the door had an override when the blank location "----" was posted
C4_Witness ==
    /\ request.op = "update_location"
    /\ door_exists(request)
    /\ strip(request.arg) = <<"-","-","-","-">>
    /\ all_doors[door_of(request)] = <<EM>>
    /\ Len(csv_lines) >= 3
    /\ csv_lines[Len(csv_lines) - 1][1] = str(door_of(request))
    /\ csv_lines[Len(csv_lines) - 1][3] \in TRUCK_TYPES

(* ---------------------------- C5 -------------------------------------- *)
\* C5: override_truck(d, "AUTO") on a non-blank door that has an override
\* removes the override, and the door then resolves to the
\* truck_by_location value of its location, or to the default.
C5_AutoClearsOverride ==
    [][ \A d \in DOMAIN all_doors :
          (/\ Served
           /\ request'.op = "override_truck"
           /\ door_exists(request')
           /\ door_of(request') = d
           /\ request'.arg = AUTO
           /\ d \in DOMAIN door_truck_type
           /\ ~ is_blank_loc(all_doors[d]))
          => /\ d \notin DOMAIN door_truck_type'
             /\ get_truck_for_door(d, all_doors[d])' =
                    IF upper(strip(all_doors[d])) \in DOMAIN truck_by_location
                    THEN truck_by_location[upper(strip(all_doors[d]))]
                    ELSE <<"A","Z","N","G">> ]_vars

\* door 123 at XME1: XPOU was forced, then AUTO brought JBHU back
C5_Witness ==
    /\ request.op = "override_truck"
    /\ request.arg = AUTO
    /\ door_exists(request) /\ door_of(request) = 123
    /\ Len(csv_lines) = 3
    /\ log_entry(csv_lines[2]) = << <<"1","2","3">>, <<"X","M","E","1">>, XPOU>>
    /\ log_entry(csv_lines[3]) = << <<"1","2","3">>, <<"X","M","E","1">>, <<>> >>
    /\ 123 \notin DOMAIN door_truck_type
    /\ get_truck_for_door(123, all_doors[123]) = JBHU

(* ---------------------------- C6 -------------------------------------- *)
\* C6 as stated: override_truck on an existing non-blank door clears the
\* override when the truck is not one of the four truck types, and sets the
\* override to the truck when it is one.
C6_Original ==
    [][ \A d \in DOMAIN all_doors :
          (/\ Served
           /\ request'.op = "override_truck"
           /\ door_exists(request')
           /\ door_of(request') = d
           /\ ~ is_blank_loc(all_doors[d]))
          => IF truck_of(request') \in {AZNG, AZNU, JBHU, XPOU}
             THEN /\ d \in DOMAIN door_truck_type'
                  /\ door_truck_type'[d] = truck_of(request')
             ELSE d \notin DOMAIN door_truck_type' ]_vars

\* C6 as amended: on an existing non-blank door, the truck read trimmed and
\* in upper case, "AUTO" clears the override, one of the four truck types
\* sets it, and any other text changes nothing: override map, board, rows
\* and log stay as they were.
C6_Amended ==
    [][ \A d \in DOMAIN all_doors :
          (/\ Served
           /\ request'.op = "override_truck"
           /\ door_exists(request')
           /\ door_of(request') = d
           /\ ~ is_blank_loc(all_doors[d]))
          => IF truck_of(request') = AUTO
             THEN d \notin DOMAIN door_truck_type'
             ELSE IF truck_of(request') \in {AZNG, AZNU, JBHU, XPOU}
             THEN /\ d \in DOMAIN door_truck_type'
                  /\ door_truck_type'[d] = truck_of(request')
             ELSE UNCHANGED <<front, back, door_truck_type, door_state,
                              csv_exists, csv_lines>> ]_vars

\* an unrecognized truck was posted for a door that keeps its override
C6_Witness ==
    /\ request.op = "override_truck"
    /\ door_exists(request)
    /\ ~ is_blank_loc(all_doors[door_of(request)])
    /\ truck_of(request) \notin TRUCK_TYPES \cup {AUTO}
    /\ door_of(request) \in DOMAIN door_truck_type
    /\ door_truck_type[door_of(request)] = XPOU

C8_Original ==
    [][ (Served /\ same_form(request', request))
        => UNCHANGED <<front, back, door_truck_type, door_state,
                       csv_exists, csv_lines>> ]_vars

\* C8 as amended: a request posted twice in a row with identical arguments
\* leaves the board locations and the override map as the first one left
\* them, and location and truck_type of every row when both returned
\* normally; the log is not left alone: a repeated request that reaches the
\* log adds a further line to it.
C8_Amended ==
    [][ (Served /\ same_form(request', request))
        => /\ UNCHANGED <<front, back, door_truck_type>>
           /\ (request.resp = "redirect" /\ request'.resp = "redirect")
                 => row_values(door_state') = row_values(door_state)
           /\ (request'.resp = "redirect" /\ accepted(request'))
                 => /\ Len(csv_lines') > Len(csv_lines)
                    /\ is_prefix(csv_lines, csv_lines') ]_vars

\* the same location was posted twice for one door: two equal log lines
C8_Witness ==
    /\ handled = 2
    /\ request.op = "update_location"
    /\ door_exists(request)
    /\ request.arg = <<"c","l","o","s","e","d">>
    /\ Len(csv_lines) = 3
    /\ csv_lines[2] = csv_lines[3]
    /\ all_doors[door_of(request)] = <<"C","L","O","S","E","D">>

(* ---------------------------- C9 -------------------------------------- *)
\* C9: every accepted mutation appends exactly one record to the log, and
\* the log only grows: the lines it held stay, unchanged and in place.
C9_Original ==
    [][ /\ is_prefix(csv_lines, csv_lines')
        /\ (Served /\ accepted(request'))
              => /\ Len(csv_lines') =
                        Len(csv_lines) + (IF csv_exists THEN 1 ELSE 2)
                 /\ csv_lines'[Len(csv_lines')][1] = str(door_of(request'))
      ]_vars

(* ---------------------------- C10 ------------------------------------- *)
\* C10: a mutation served while the configured store is unreachable still
\* updates board and override map, still appends its log line, leaves the
\* rows alone and returns normally.
C10_Original ==
    [][ (Served /\ accepted(request') /\ db_configured /\ ~ db_up)
        => /\ request'.resp = "redirect"
           /\ Len(csv_lines') > Len(csv_lines)
           /\ door_state' = door_state ]_vars


(* ------------------------------- C11 ---------------------------------- *)
\* C11 as stated: after a startup with no durable store configured the
\* Board and the override map are the replay of the log file on top of the
\* compiled-in defaults, the last record of a door winning
C11_Original ==
    (request.op = "startup" /\ ~ db_configured)
        => LET b == replay(csv_lines, seed_board)
           IN  /\ front = b.front
               /\ back = b.back
               /\ door_truck_type = b.overrides

\* C11, amended: after a startup with no durable store configured the Board
\* holds the compiled-in defaults and the override map is empty, whatever
\* the log file holds; the log is never read back
C11_Amended ==
    (request.op = "startup" /\ ~ db_configured)
        => /\ front = front_seed
           /\ back = back_seed
           /\ door_truck_type = no_overrides

\* a startup without a store after two records for one door were logged,
\* the later one differing from the earlier one
C11_Witness ==
    /\ request.op = "startup"
    /\ ~ db_configured
    /\ \E i, j \in DOMAIN csv_lines :
          /\ i < j
          /\ csv_lines[i] # CSV_HEADER
          /\ csv_lines[i][1] = csv_lines[j][1]
          /\ log_entry(csv_lines[i]) # log_entry(csv_lines[j])
    /\ replay(csv_lines, seed_board) # seed_board


(* ------------------------------- C18 ---------------------------------- *)
\* C18: the door ids of the front partition and those of the back
\* partition are disjoint and never change; each partition holds exactly
\* the door ids it was built with, after any startup load, update and
\* override
C18_PartitionsFixed ==
    /\ DOMAIN front = DOMAIN front_seed
    /\ DOMAIN back = DOMAIN back_seed
    /\ DOMAIN front \cap DOMAIN back = {}

\* a startup load from the store after an update and an override changed
\* a location and set an override
C18_Witness ==
    /\ request.op = "startup"
    /\ request.resp = "ok"
    /\ get_db_conn = "conn"
    /\ handled = 2
    /\ front # front_seed \/ back # back_seed
    /\ door_truck_type # no_overrides


(* ------------------------------- C13 ---------------------------------- *)
\* C13: with the durable store reachable, after every completed mutation
\* on door d the store holds the one row of d, and its location and
\* truck_type are the Board location of d and the override of d (null when
\* d has none); rows are keyed by door, so no door has two rows
C13_RowMirrorsBoard ==
    [][ \A d \in DOMAIN all_doors :
          (/\ Served
           /\ accepted(request')
           /\ door_of(request') = d
           /\ request'.resp = "redirect"
           /\ get_db_conn = "conn")
          => /\ d \in DOMAIN door_state'
             /\ door_state'[d].location = all_doors'[d]
             /\ door_state'[d].truck_type = dict_get(door_truck_type', d) ]_vars

\* an override was set with the store reachable and its row carries it
C13_Witness ==
    /\ request.op = "override_truck"
    /\ request.resp = "redirect"
    /\ accepted(request)
    /\ get_db_conn = "conn"
    /\ door_of(request) \in DOMAIN door_truck_type
    /\ door_state[door_of(request)].truck_type
           = door_truck_type[door_of(request)]

(* ------------------------------- C14 ---------------------------------- *)
\* the last line of the log whose door column is d
last_record(lines, d) ==
    LET at == {i \in DOMAIN lines : lines[i][1] = str(d)}
    IN  IF at = {} THEN None
        ELSE lines[CHOOSE i \in at : \A j \in at : j <= i]

\* C14: after every completed mutation on door d the last record of the
\* log for d carries the location now on the Board for d and the truck now
\* stored as the override of d, the empty string when d has none
C14_LastRecordIsStoredValue ==
    [][ \A d \in DOMAIN all_doors :
          (/\ Served
           /\ accepted(request')
           /\ door_of(request') = d
           /\ request'.resp = "redirect")
          => /\ last_record(csv_lines', d) # None
             /\ last_record(csv_lines', d)[2] = all_doors'[d]
             /\ last_record(csv_lines', d)[3] =
                    IF d \in DOMAIN door_truck_type'
                    THEN door_truck_type'[d] ELSE <<>> ]_vars

\* two records for one door, the second one carrying a forced truck
C14_Witness ==
    /\ request.op = "override_truck"
    /\ request.resp = "redirect"
    /\ accepted(request)
    /\ Len(csv_lines) = 3
    /\ csv_lines[2][1] = csv_lines[3][1]
    /\ door_of(request) \in DOMAIN door_truck_type
    /\ csv_lines[3][3] = door_truck_type[door_of(request)]


(* ------------------------------- C12 ---------------------------------- *)
\* C12: with no durable store configured and no log file yet, the export
\* returns the header line door,location,truck_type,updated_at and no data
\* line, and changes nothing but the log file, which it creates holding
\* the header only
C12_ExportHeaderOnly ==
    [][ (/\ request'.op = "download_csv"
         /\ ~ db_configured
         /\ ~ csv_exists)
        => /\ request'.resp = "ok"
           /\ request'.body = << << <<"d","o","o","r">>,
                                    <<"l","o","c","a","t","i","o","n">>,
                                    <<"t","r","u","c","k","_","t","y","p","e">>,
                                    <<"u","p","d","a","t","e","d","_","a","t">> >> >>
           /\ csv_exists'
           /\ csv_lines' = request'.body
           /\ UNCHANGED <<front, back, door_truck_type, door_state,
                          db_configured, db_up, running, handled>> ]_vars

\* the export was served first thing, without a store
C12_Witness ==
    /\ request.op = "download_csv"
    /\ request.resp = "ok"
    /\ ~ db_configured
    /\ handled = 0
    /\ csv_exists
    /\ Len(request.body) = 1

(* ------------------------------- C15 ---------------------------------- *)
\* C15: with the durable store reachable throughout, a restart after any
\* mutations leaves the Board locations and the override map as they were
\* just before it; every door with a row has the location and the truck of
\* its row, a door without a row its compiled-in location
C15_RestartRoundTrip ==
    [][ request'.op = "startup"
        => /\ request'.resp = "ok"
           /\ front' = front
           /\ back' = back
           /\ door_truck_type' = door_truck_type
           /\ \A d \in DOMAIN all_doors :
                 IF d \in DOMAIN door_state'
                 THEN /\ all_doors'[d] = door_state'[d].location
                      /\ dict_get(door_truck_type', d)
                            = door_state'[d].truck_type
                 ELSE all_doors'[d] = (back_seed @@ front_seed)[d] ]_vars

\* a restart after a location was changed and an override was set
C15_Witness ==
    /\ request.op = "startup"
    /\ request.resp = "ok"
    /\ handled = 2
    /\ db_configured /\ db_up
    /\ front # front_seed \/ back # back_seed
    /\ door_truck_type # no_overrides
    /\ \A d \in DOMAIN door_truck_type :
          door_state[d].truck_type = door_truck_type[d]

(* ------------------------------- C16 ---------------------------------- *)
\* C16: startup seeding writes to the durable store only when the store
\* holds no row, and then inserts one row per door with the compiled-in
\* location; when the store holds a row already, startup inserts no row
\* and changes the location and the truck_type of no row
C16_SeedOnlyWhenEmpty ==
    [][ (/\ request'.op = "startup"
         /\ request'.resp = "ok"
         /\ db_up' = db_up
         /\ get_db_conn = "conn")
        => IF DOMAIN door_state = {}
           THEN /\ DOMAIN door_state' = DOMAIN front_seed \cup DOMAIN back_seed
                /\ \A d \in DOMAIN door_state' :
                      door_state'[d].location = (back_seed @@ front_seed)[d]
           ELSE /\ DOMAIN door_state' = DOMAIN door_state
                /\ row_values(door_state') = row_values(door_state) ]_vars

\* a startup found rows that a mutation had written and left them alone
C16_Witness ==
    /\ request.op = "startup"
    /\ request.resp = "ok"
    /\ get_db_conn = "conn"
    /\ handled >= 1
    /\ \E d \in DOMAIN door_state :
          door_state[d].location # (back_seed @@ front_seed)[d]


(* ------------------------------- C19 ---------------------------------- *)
\* some character of text n is outside the set ok
has_char_outside(n, ok) == \E i \in DOMAIN n : n[i] \notin ok

C17_Original == open_conns = 0


(* ------------------------------- C20 ---------------------------------- *)
\* what serving request t alone on the freshly started board gives for its
\* door: the location, the override (None when there is none), and whether
\* the request reaches the persistence calls
seq_loc(t) ==
    IF t.op = "update_location"
    THEN (IF upper(strip(t.arg)) \in BLANK_LITERALS
          THEN <<EM>> ELSE upper(strip(t.arg)))
    ELSE (back_seed @@ front_seed)[int(strip(t.door))]

seq_truck(t) ==
    IF /\ t.op = "override_truck"
       /\ ~ is_blank_loc(seq_loc(t))
       /\ upper(strip(t.arg)) \in TRUCK_TYPES
    THEN upper(strip(t.arg)) ELSE None

seq_persists(t) ==
    \/ t.op = "update_location"
    \/ is_blank_loc(seq_loc(t))
    \/ upper(strip(t.arg)) \in TRUCK_TYPES \cup {AUTO}

\* the thread serving door d, when there is one
serving(d) == {i \in DOMAIN threads : int(strip(threads[i].door)) = d}

seq_board(d) ==
    IF serving(d) = {} THEN (back_seed @@ front_seed)[d]
    ELSE seq_loc(threads[CHOOSE i \in serving(d) : TRUE])

seq_override(d) ==
    IF serving(d) = {} THEN None
    ELSE seq_truck(threads[CHOOSE i \in serving(d) : TRUE])

\* C20: two concurrent mutation requests for different doors are safe:
\* whatever the interleaving of their steps, when both have returned the
\* Board, the override map and the durable rows are those of serving the
\* two one after the other, and the log holds one record for each
C20_DifferentDoorsSafe ==
    (\A i \in DOMAIN threads : threads[i].pc = "done")
    => /\ front = [d \in DOMAIN front_seed |-> seq_board(d)]
       /\ back = [d \in DOMAIN back_seed |-> seq_board(d)]
       /\ door_truck_type =
             [d \in {e \in DOMAIN all_doors : seq_override(e) # None} |->
                 seq_override(d)]
       /\ get_db_conn = "conn"
             => row_values(door_state) =
                  [d \in DOMAIN all_doors |-> <<seq_board(d), seq_override(d)>>]
       /\ \A i \in DOMAIN threads :
             LET t == threads[i]
                 at == {k \in DOMAIN csv_lines :
                          csv_lines[k][1] = str(int(strip(t.door)))}
             IN  IF seq_persists(t)
                 THEN /\ Cardinality(at) = 1
                      /\ \A k \in at :
                            log_entry(csv_lines[k]) =
                              <<str(int(strip(t.door))), seq_loc(t),
                                IF seq_truck(t) = None THEN <<>>
                                ELSE seq_truck(t)>>
                 ELSE at = {}
       /\ Cardinality({k \in DOMAIN csv_lines : csv_lines[k] # CSV_HEADER})
             = Cardinality({i \in DOMAIN threads : seq_persists(threads[i])})

\* an update and an override have both returned after their appends
\* overlapped: each saw no log file and wrote the header
C20_Witness ==
    /\ Len(threads) = 2
    /\ \A i \in DOMAIN threads : threads[i].pc = "done"
    /\ threads[1].op = "update_location"
    /\ threads[2].op = "override_truck"
    /\ front # front_seed
    /\ door_truck_type # no_overrides
    /\ Len(csv_lines) = 4
    /\ csv_lines[1] = CSV_HEADER /\ csv_lines[3] = CSV_HEADER

=============================================================================
